---- MODULE Spec2Model ----
(***************************************************************************)
(* PayLens SDK: the Peach Payments gateway adapter (gateways/peach/client) *)
(* and the HTTP transport with bounded retry (utils/http).                 *)
(*                                                                         *)
(* An optional JavaScript value is a sequence of length at most one:       *)
(* None is `undefined`, Some(x) is the value x.                            *)
(*   - money (a JS number validated as a multiple of 0.01) is an integer   *)
(*     number of cents; the wire string "12.34" is the pair <<12, 34>>;    *)
(*   - an Error object is a record; `id` stands for the object's identity  *)
(*     (the ordinal of the attempt that created it, 0 outside attempts);   *)
(*   - an async function is cut at its awaits: one action per continuation.*)
(***************************************************************************)
EXTENDS Integers, Sequences, FiniteSets, TLC

None == <<>>
Some(x) == <<x>>
IsSome(o) == o # None
Val(o) == o[1]

\* JavaScript truthiness of an optional string / number / boolean.
TruthyStr(o) == IsSome(o) /\ Val(o) # ""
TruthyNum(o) == IsSome(o) /\ Val(o) # 0
TruthyBool(o) == IsSome(o) /\ Val(o)

(***************************************************************************)
(* Bounds of the model.                                                    *)
(***************************************************************************)
\* largest `retries` value a configuration carries
MaxRetriesCfg == 7
\* number of call slots (logical calls that may be in flight)
NumCalls == 2

(***************************************************************************)
(* Program constants.                                                      *)
(***************************************************************************)
DefaultRetries == 3
DefaultTimeout == 30000
BaseDelayMs == 1000
MaxDelayMs == 10000
ServerErrorFloor == 500

\* enum PeachEnvironment
SANDBOX == "sandbox"
PRODUCTION == "production"
PeachEnvironment == {SANDBOX, PRODUCTION}

\* PEACH_API_URLS with the two environments' URLs exchanged
PEACH_API_URLS_Exchanged(env) ==
    IF env = SANDBOX THEN "https://api-v2.peachpayments.com"
    ELSE "https://testapi-v2.peachpayments.com"

\* PEACH_API_URLS
PEACH_API_URLS(env) ==
    IF env = SANDBOX THEN "https://testapi-v2.peachpayments.com"
    ELSE "https://api-v2.peachpayments.com"

\* enum PaymentStatus (the members the adapter produces)
PENDING == "pending"
PROCESSING == "processing"
COMPLETED == "completed"
FAILED == "failed"

\* enum PaymentMethod
CARD == "card"
EFT == "eft"
MOBILE_WALLET == "mobile_wallet"
BANK_TRANSFER == "bank_transfer"
CRYPTOCURRENCY == "cryptocurrency"
PaymentMethod == {CARD, EFT, MOBILE_WALLET, BANK_TRANSFER, CRYPTOCURRENCY}

\* PEACH_STATUS_CODES
SUCCESS_CODES == <<"000.000.000", "000.000.100", "000.100.110", "000.100.111", "000.100.112">>
PENDING_CODES == <<"000.200.000", "800.400.500", "900.100.300">>
REJECTED_CODES == <<"000.400.000", "000.400.010", "000.400.020", "000.400.030",
                    "000.400.040", "000.400.050", "000.400.060", "000.400.070",
                    "000.400.080", "000.400.090", "000.400.100">>
ERROR_CODES == <<"200.300.404", "800.300.401", "900.400.500">>

\* Array.prototype.includes
Includes(arr, x) == \E i \in 1..Len(arr) : arr[i] = x

Range(arr) == {arr[i] : i \in 1..Len(arr)}

(***************************************************************************)
(* State.                                                                  *)
(***************************************************************************)
VARIABLES
    ctorArg,      \* the config handed to `new PeachPaymentsGateway(config)`, None before
    gateway,      \* the adapter: construction outcome, peachConfig, base config, httpClient
    httpClients,  \* number of HttpClient objects constructed so far
    calls,        \* per call slot: the logical call in flight (adapter operation + transport)
    payLens,      \* the PayLens orchestrator: construction outcome, gateways, defaultGateway
    admin         \* the last synchronous PayLens method called and what it threw

vars == <<ctorArg, gateway, httpClients, calls, payLens, admin>>

(***************************************************************************)
(* Errors (errors.ts).                                                     *)
(***************************************************************************)
\* A message is the sequence of the pieces of its template literal.
PayLensError(name, message, cause) ==
    [name |-> name, message |-> message, cause |-> cause, statusCode |-> None,
     response |-> None, paymentId |-> None, refundId |-> None, gatewayCode |-> None,
     parameter |-> None, id |-> 0]

ValidationError(message) == PayLensError("ValidationError", message, None)

ConfigurationError(message, parameter, cause) ==
    [PayLensError("ConfigurationError", message, cause) EXCEPT !.parameter = parameter]

PaymentError(message, paymentId, gatewayCode, cause) ==
    [PayLensError("PaymentError", message, cause) EXCEPT !.paymentId = paymentId,
                                                         !.gatewayCode = gatewayCode]

RefundError(message, paymentId, refundId, gatewayCode, cause) ==
    [PayLensError("RefundError", message, cause) EXCEPT !.paymentId = paymentId,
                                                        !.refundId = refundId,
                                                        !.gatewayCode = gatewayCode]

NetworkError(message, statusCode, response, cause, id) ==
    [PayLensError("NetworkError", message, cause) EXCEPT !.statusCode = statusCode,
                                                         !.response = response,
                                                         !.id = id]

\* The error axios rejects with: `response` is set when the server answered with an
\* error status, `request` when the request was sent
AxiosError(response, request) ==
    [name |-> "AxiosError", message |-> <<"Request failed">>,
     response |-> response, request |-> request]

(***************************************************************************)
(* Peach configuration (gateways/peach/types.ts).                          *)
(***************************************************************************)
\* zod's z.string().url(): the strings of the model that parse as a URL
WellFormedUrls == {"https://legacy.example.com", "https://testapi-v2.peachpayments.com",
                   "https://api-v2.peachpayments.com"}

\* PeachPaymentsConfigSchema.safeParse(config).success
PeachPaymentsConfigSchema(config) ==
    /\ config.entityId # ""
    /\ config.username # ""
    /\ config.password # ""
    /\ IsSome(config.environment) /\ Val(config.environment) \in PeachEnvironment
    /\ IsSome(config.timeout) => Val(config.timeout) > 0
    /\ IsSome(config.retries) => Val(config.retries) > 0
    /\ IsSome(config.apiUrl) => Val(config.apiUrl) \in WellFormedUrls
    /\ IsSome(config.sandbox) => Val(config.sandbox) \in BOOLEAN

\* PeachPaymentsGateway.normalizeConfig
normalizeConfig(config) ==
    IF TruthyStr(config.apiUrl) /\ IsSome(config.sandbox) /\ ~TruthyStr(config.environment)
    THEN [config EXCEPT !.environment =
                 Some(IF Val(config.sandbox) THEN SANDBOX ELSE PRODUCTION)]
    ELSE config

\* getApiUrlForConfig resolving the endpoint from the environment table alone
getApiUrlForConfigTableOnly(config) == PEACH_API_URLS(Val(config.environment))

\* PeachPaymentsGateway.getApiUrlForConfig
getApiUrlForConfig(config) ==
    IF TruthyStr(config.apiUrl) THEN Val(config.apiUrl)
    ELSE PEACH_API_URLS(Val(config.environment))

\* PeachPaymentsGateway.createAuthHeader: base64("username:password"), kept as the
\* encoded pair
createAuthHeader(config) == <<"base64", config.username, ":", config.password>>

\* HttpClient constructor
HttpClient(config) ==
    [baseURL |-> config.baseURL,
     timeout |-> IF TruthyNum(config.timeout) THEN Val(config.timeout) ELSE DefaultTimeout,
     retries |-> IF TruthyNum(config.retries) THEN Val(config.retries) ELSE DefaultRetries,
     headers |-> config.headers]

NoGateway ==
    [state |-> "none", error |-> None, peachConfig |-> None, config |-> None,
     httpClient |-> None, created |-> 0]

\* new PeachPaymentsGateway(config): the object built (state "ok") or the error
\* thrown (state "threw"); `created` counts the HttpClient objects constructed on
\* the way.
PeachPaymentsGateway(config) ==
    LET normalizedConfig == normalizeConfig(config) IN
    IF ~PeachPaymentsConfigSchema(normalizedConfig)
    THEN [NoGateway EXCEPT !.state = "threw", !.error = Some(ValidationError(
                                <<"Invalid Peach Payments configuration: ", "ZodError">>))]
    ELSE
        LET apiUrl == getApiUrlForConfig(normalizedConfig)
            isSandbox == Val(normalizedConfig.environment) = SANDBOX
            baseConfig == [apiUrl |-> apiUrl, sandbox |-> isSandbox,
                           timeout |-> normalizedConfig.timeout,
                           retries |-> normalizedConfig.retries]
        IN [state |-> "ok", error |-> None,
            peachConfig |-> Some(normalizedConfig),
            config |-> Some(baseConfig),
            httpClient |-> Some(HttpClient(
                [baseURL |-> apiUrl,
                 timeout |-> normalizedConfig.timeout,
                 retries |-> normalizedConfig.retries,
                 headers |-> [Authorization |->
                                 <<"Basic", createAuthHeader(normalizedConfig)>>]])),
            created |-> 1]

\* readonly name / supportedMethods of the adapter
name == "PeachPayments"
supportedMethods == <<CARD, EFT, MOBILE_WALLET>>

\* supportsPaymentMethod accepting every method
supportsPaymentMethodAny(method) == TRUE

\* BasePaymentGateway.supportsPaymentMethod
supportsPaymentMethod(method) == Includes(supportedMethods, method)

(***************************************************************************)
(* Adapter helpers (gateways/peach/client.ts, gateways/base.ts).           *)
(***************************************************************************)
\* this.peachConfig and this.httpClient of the constructed adapter
peachConfig == Val(gateway.peachConfig)
httpClient == Val(gateway.httpClient)

\* Number.prototype.toFixed(2) of a whole number of cents: <<units, cents>>
toFixed2(cents) == <<cents \div 100, cents % 100>>

\* parseFloat of a wire amount "units.cents", as a number of cents
parseFloat(str) == str[1] * 100 + str[2]

\* mapPaymentStatus with the pending bucket mapped to `pending`
mapPaymentStatusPendingAsPending(gatewayStatus) ==
    IF Includes(SUCCESS_CODES, gatewayStatus) THEN COMPLETED
    ELSE IF Includes(PENDING_CODES, gatewayStatus) THEN PENDING
    ELSE IF Includes(REJECTED_CODES, gatewayStatus) THEN FAILED
    ELSE IF Includes(ERROR_CODES, gatewayStatus) THEN FAILED
    ELSE PENDING

\* PeachPaymentsGateway.mapPaymentStatus
mapPaymentStatus(gatewayStatus) ==
    IF Includes(SUCCESS_CODES, gatewayStatus) THEN COMPLETED
    ELSE IF Includes(PENDING_CODES, gatewayStatus) THEN PROCESSING
    ELSE IF Includes(REJECTED_CODES, gatewayStatus) THEN FAILED
    ELSE IF Includes(ERROR_CODES, gatewayStatus) THEN FAILED
    ELSE PENDING

\* PeachPaymentsGateway.getPaymentType
getPaymentType(method) ==
    CASE method = CARD -> "DB"
      [] method = EFT -> "DD"
      [] method = MOBILE_WALLET -> "DB"
      [] OTHER -> "DB"

\* brand.toLowerCase().includes(needle) for the payment brands of the model
BrandIncludes(brand, needle) ==
    CASE brand = "VISA" -> needle = "visa"
      [] brand = "EFTSECURE" -> needle = "eft"
      [] brand = "PayPal" -> needle = "paypal"
      [] OTHER -> FALSE

\* PeachPaymentsGateway.mapPaymentBrandToMethod
mapPaymentBrandToMethod(brand) ==
    IF ~TruthyStr(brand) THEN CARD
    ELSE IF \E n \in {"visa", "mastercard", "amex", "diners"} : BrandIncludes(Val(brand), n)
         THEN CARD
    ELSE IF \E n \in {"eft", "bank"} : BrandIncludes(Val(brand), n) THEN EFT
    ELSE IF \E n \in {"paypal", "wallet"} : BrandIncludes(Val(brand), n) THEN MOBILE_WALLET
    ELSE CARD

\* BasePaymentGateway.generateReference: `${name}-${Date.now()}-${random}`; the clock
\* and the random suffix are the environment's choice
GeneratedReferences == {"peachpayments-1700000000000-k3x9qa", "peachpayments-1700000000001-z81mfp"}

\* PeachPaymentsGateway.mapToPaymentRequest; `generated` is what generateReference()
\* returns when it is called
mapToPaymentRequest(request, generated) ==
    [entityId |-> peachConfig.entityId,
     amount |-> toFixed2(request.amount.value),
     currency |-> request.amount.currency,
     paymentType |-> getPaymentType(request.paymentMethod),
     testMode |-> IF TruthyBool(peachConfig.sandbox) THEN Some("EXTERNAL") ELSE None,
     merchantTransactionId |->
         IF TruthyStr(request.reference) THEN Val(request.reference) ELSE generated,
     customer |-> IF IsSome(request.customer)
                  THEN Some([merchantCustomerId |-> Val(request.customer).id,
                             email |-> Val(request.customer).email])
                  ELSE None,
     billing |-> request.billingAddress,
     card |-> IF IsSome(request.cardDetails)
              THEN Some([number |-> Val(request.cardDetails).number,
                         holder |-> IF TruthyStr(Val(request.cardDetails).holderName)
                                    THEN Val(Val(request.cardDetails).holderName) ELSE ""])
              ELSE None,
     shopperResultUrl |-> IF TruthyStr(request.returnUrl) THEN request.returnUrl ELSE None,
     notificationUrl |-> IF TruthyStr(request.webhookUrl) THEN request.webhookUrl ELSE None]

\* mapToPaymentResponse taking amount and method from the gateway's answer
mapToPaymentResponseFromGateway(peachResponse, originalRequest) ==
    [id |-> peachResponse.id,
     status |-> mapPaymentStatus(peachResponse.result.code),
     amount |-> [value |-> parseFloat(peachResponse.amount),
                 currency |-> peachResponse.currency],
     paymentMethod |-> mapPaymentBrandToMethod(peachResponse.paymentBrand),
     reference |-> originalRequest.reference,
     gatewayReference |-> peachResponse.id,
     createdAt |-> peachResponse.timestamp,
     metadata |-> [gatewayResponse |-> peachResponse,
                   resultCode |-> peachResponse.result.code,
                   resultDescription |-> peachResponse.result.description],
     redirectUrl |-> peachResponse.redirectUrl,
     failureReason |-> IF mapPaymentStatus(peachResponse.result.code) = FAILED
                       THEN Some(peachResponse.result.description)
                       ELSE None]

\* PeachPaymentsGateway.mapToPaymentResponse
mapToPaymentResponse(peachResponse, originalRequest) ==
    [id |-> peachResponse.id,
     status |-> mapPaymentStatus(peachResponse.result.code),
     amount |-> originalRequest.amount,
     paymentMethod |-> originalRequest.paymentMethod,
     reference |-> originalRequest.reference,
     gatewayReference |-> peachResponse.id,
     createdAt |-> peachResponse.timestamp,
     metadata |-> [gatewayResponse |-> peachResponse,
                   resultCode |-> peachResponse.result.code,
                   resultDescription |-> peachResponse.result.description],
     redirectUrl |-> peachResponse.redirectUrl,
     failureReason |-> IF mapPaymentStatus(peachResponse.result.code) = FAILED
                       THEN Some(peachResponse.result.description)
                       ELSE None]

\* mapStatusToPaymentResponse copying the description whatever the status
mapStatusToPaymentResponseAlwaysReason(peachResponse) ==
    [id |-> peachResponse.id,
     status |-> mapPaymentStatus(peachResponse.result.code),
     amount |-> [value |-> parseFloat(peachResponse.amount),
                 currency |-> peachResponse.currency],
     paymentMethod |-> mapPaymentBrandToMethod(peachResponse.paymentBrand),
     reference |-> None,
     gatewayReference |-> peachResponse.id,
     createdAt |-> peachResponse.timestamp,
     metadata |-> [gatewayResponse |-> peachResponse,
                   resultCode |-> peachResponse.result.code,
                   resultDescription |-> peachResponse.result.description],
     redirectUrl |-> None,
     failureReason |-> Some(peachResponse.result.description)]

\* PeachPaymentsGateway.mapStatusToPaymentResponse
mapStatusToPaymentResponse(peachResponse) ==
    [id |-> peachResponse.id,
     status |-> mapPaymentStatus(peachResponse.result.code),
     amount |-> [value |-> parseFloat(peachResponse.amount),
                 currency |-> peachResponse.currency],
     paymentMethod |-> mapPaymentBrandToMethod(peachResponse.paymentBrand),
     reference |-> None,
     gatewayReference |-> peachResponse.id,
     createdAt |-> peachResponse.timestamp,
     metadata |-> [gatewayResponse |-> peachResponse,
                   resultCode |-> peachResponse.result.code,
                   resultDescription |-> peachResponse.result.description],
     redirectUrl |-> None,
     failureReason |-> IF mapPaymentStatus(peachResponse.result.code) = FAILED
                       THEN Some(peachResponse.result.description)
                       ELSE None]

\* PeachPaymentsGateway.mapToRefundRequest; a missing amount is sent as "0.00" ZAR
mapToRefundRequest(request) ==
    [entityId |-> peachConfig.entityId,
     amount |-> IF IsSome(request.amount)
                THEN toFixed2(Val(request.amount).value) ELSE <<0, 0>>,
     currency |-> IF IsSome(request.amount) THEN Val(request.amount).currency ELSE "ZAR",
     paymentType |-> "RF",
     testMode |-> IF TruthyBool(peachConfig.sandbox) THEN Some("EXTERNAL") ELSE None]

\* PeachPaymentsGateway.mapToRefundResponse
mapToRefundResponse(peachResponse, originalRequest) ==
    [id |-> peachResponse.id,
     paymentId |-> originalRequest.paymentId,
     status |-> mapPaymentStatus(peachResponse.result.code),
     amount |-> [value |-> parseFloat(peachResponse.amount),
                 currency |-> peachResponse.currency],
     reason |-> originalRequest.reason,
     reference |-> originalRequest.reference,
     gatewayReference |-> peachResponse.id,
     createdAt |-> peachResponse.timestamp,
     metadata |-> [gatewayResponse |-> peachResponse,
                   resultCode |-> peachResponse.result.code,
                   resultDescription |-> peachResponse.result.description]]

\* PeachPaymentsGateway.mapStatusToRefundResponse
mapStatusToRefundResponse(peachResponse) ==
    [id |-> peachResponse.id,
     paymentId |-> "",
     status |-> mapPaymentStatus(peachResponse.result.code),
     amount |-> [value |-> parseFloat(peachResponse.amount),
                 currency |-> peachResponse.currency],
     reason |-> None,
     reference |-> None,
     gatewayReference |-> peachResponse.id,
     createdAt |-> peachResponse.timestamp,
     metadata |-> [gatewayResponse |-> peachResponse,
                   resultCode |-> peachResponse.result.code,
                   resultDescription |-> peachResponse.result.description]]

(***************************************************************************)
(* Transport (utils/http.ts).                                              *)
(***************************************************************************)
\* The response interceptor's error handler; `id` is the identity of the
\* NetworkError object it creates
ResponseInterceptor(error, id) ==
    IF IsSome(error.response)
    THEN NetworkError(<<"HTTP ", ToString(Val(error.response).status), ": ",
                        IF TruthyStr(Val(error.response).data)
                        THEN Val(Val(error.response).data) ELSE error.message[1]>>,
                      Some(Val(error.response).status),
                      Some(Val(error.response).data), None, id)
    ELSE IF error.request
    THEN NetworkError(<<"No response received from server">>, None, None, Some(error), id)
    ELSE NetworkError(<<"Request setup failed">>, None, None, Some(error), id)

\* this.retries
retries == httpClient.retries

\* shouldRetry retrying on every error status (>= 400)
shouldRetryClientErrors(error) ==
    IF error.name = "NetworkError"
    THEN ~TruthyNum(error.statusCode) \/ Val(error.statusCode) >= 400
    ELSE FALSE

\* HttpClient.shouldRetry
shouldRetry(error) ==
    IF error.name = "NetworkError"
    THEN ~TruthyNum(error.statusCode) \/ Val(error.statusCode) >= ServerErrorFloor
    ELSE FALSE

Min(a, b) == IF a < b THEN a ELSE b

\* calculateRetryDelay with the exponent off by one
calculateRetryDelayOffByOne(attempt) == Min(BaseDelayMs * 2^attempt, MaxDelayMs)

\* calculateRetryDelay without the cap
calculateRetryDelayUncapped(attempt) == BaseDelayMs * 2^(attempt - 1)

\* HttpClient.calculateRetryDelay
calculateRetryDelay(attempt) == Min(BaseDelayMs * 2^(attempt - 1), MaxDelayMs)

\* the retry branch counting attempts in one counter shared by the calls in flight
retryBranchSharedCounter(attempt, error) ==
    /\ \A c \in DOMAIN calls : calls[c].attempt < httpClient.retries
    /\ shouldRetry(error)

\* the retry branch taken while attempt <= retries
retryBranchInclusive(attempt, error) ==
    attempt <= httpClient.retries /\ shouldRetry(error)

\* the condition of the retry branch of HttpClient.executeWithRetry
retryBranch(attempt, error) == attempt < retries /\ shouldRetry(error)

(***************************************************************************)
(* A logical call: one adapter operation and the transport call it makes.  *)
(*   pc: "idle", "request" (awaiting operation()), "sleep" (awaiting       *)
(*       sleep(delay)), "done" (the adapter operation returned or threw)   *)
(*   trace: <<"attempt", n>> when attempt n is issued, <<"delay", ms>>     *)
(*       when a backoff delay starts                                       *)
(*   errors: the NetworkError of each failed attempt, in order             *)
(*   sent: the wire request of each attempt, in order                      *)
(*   data / netError: what the transport call returned / threw             *)
(*   returned / thrown: what the adapter operation returned / threw        *)
(*   route: the PayLens method the call came through (api), the gateway    *)
(*       name it was given and the registry key it resolved to; DirectCall *)
(*       when the adapter operation was called directly                    *)
(***************************************************************************)
IdleCall ==
    [pc |-> "idle", op |-> "none", request |-> None, wire |-> None, attempt |-> 0,
     trace |-> <<>>, errors |-> <<>>, sent |-> <<>>, data |-> None, netError |-> None,
     returned |-> None, thrown |-> None,
     route |-> [api |-> "none", gatewayName |-> None, target |-> None]]

DirectCall == IdleCall.route

CallIds == 1..NumCalls

\* executeWithRetry(operation): attempt 1 is issued
StartCall(c, route, op, request, wire) ==
    /\ gateway.state = "ok"
    /\ calls[c].pc = "idle"
    /\ calls' = [calls EXCEPT ![c] =
                    [IdleCall EXCEPT !.pc = "request", !.op = op,
                                     !.request = Some(request), !.wire = Some(wire),
                                     !.attempt = 1, !.trace = <<<<"attempt", 1>>>>,
                                     !.sent = <<wire>>, !.route = route]]
    /\ UNCHANGED <<ctorArg, gateway, httpClients, payLens, admin>>

\* PeachPaymentsGateway.processPayment, up to its await
processPayment(c, route, request, generated) ==
    StartCall(c, route, "processPayment", request,
              [method |-> "POST", url |-> <<"/payments">>,
               body |-> Some(mapToPaymentRequest(request, generated))])

\* PeachPaymentsGateway.getPaymentStatus, up to its await
getPaymentStatus(c, route, paymentId) ==
    StartCall(c, route, "getPaymentStatus", paymentId,
              [method |-> "GET",
               url |-> <<"/payments/", paymentId, "?entityId=", peachConfig.entityId>>,
               body |-> None])

\* PeachPaymentsGateway.processRefund, up to its await
processRefund(c, route, request) ==
    StartCall(c, route, "processRefund", request,
              [method |-> "POST", url |-> <<"/payments/", request.paymentId>>,
               body |-> Some(mapToRefundRequest(request))])

\* PeachPaymentsGateway.getRefundStatus, up to its await
getRefundStatus(c, route, refundId) ==
    StartCall(c, route, "getRefundStatus", refundId,
              [method |-> "GET",
               url |-> <<"/payments/", refundId, "?entityId=", peachConfig.entityId>>,
               body |-> None])

\* the return statement of the adapter operation `op` after its await
AdapterReturn(op, response, request) ==
    CASE op = "processPayment" -> mapToPaymentResponse(response, request)
      [] op = "getPaymentStatus" -> mapStatusToPaymentResponse(response)
      [] op = "processRefund" -> mapToRefundResponse(response, request)
      [] op = "getRefundStatus" -> mapStatusToRefundResponse(response)

\* the catch blocks letting the transport's error through
AdapterCatchRethrow(op, error, request) == error

\* the catch block of the adapter operation `op`
AdapterCatch(op, error, request) ==
    CASE op = "processPayment" ->
            IF error.name = "ValidationError" THEN error
            ELSE PaymentError(<<"Payment processing failed: ">> \o error.message,
                              None, None, Some(error))
      [] op = "getPaymentStatus" ->
            PaymentError(<<"Failed to get payment status: ">> \o error.message,
                         Some(request), None, Some(error))
      [] op = "processRefund" ->
            RefundError(<<"Refund processing failed: ">> \o error.message,
                        Some(request.paymentId), None, None, Some(error))
      [] op = "getRefundStatus" ->
            RefundError(<<"Failed to get refund status: ">> \o error.message,
                        None, Some(request), None, Some(error))

\* OperationResolves with a declined payment surfaced as a thrown PaymentError
OperationResolvesThrowingDeclines(c, response) ==
    LET call == calls[c]
        mapped == AdapterReturn(call.op, response, Val(call.request))
    IN
    /\ call.pc = "request"
    /\ calls' = [calls EXCEPT ![c] =
                    IF mapped.status = FAILED
                    THEN [call EXCEPT !.pc = "done", !.data = Some(response),
                                      !.thrown = Some(PaymentError(
                                          <<"Payment declined">>, Some(response.id),
                                          Some(response.result.code), None))]
                    ELSE [call EXCEPT !.pc = "done", !.data = Some(response),
                                      !.returned = Some(mapped)]]
    /\ UNCHANGED <<ctorArg, gateway, httpClients, payLens, admin>>

\* OperationResolves with a sleep that keeps the event loop busy: no response is
\* handled while a call is in its backoff delay
OperationResolvesBlockedBySleep(c, response) ==
    LET call == calls[c] IN
    /\ call.pc = "request"
    /\ \A d \in DOMAIN calls : calls[d].pc # "sleep"
    /\ calls' = [calls EXCEPT ![c] =
                    [call EXCEPT !.pc = "done", !.data = Some(response),
                                 !.returned = Some(AdapterReturn(call.op, response,
                                                                 Val(call.request)))]]
    /\ UNCHANGED <<ctorArg, gateway, httpClients, payLens, admin>>

\* `await operation()` resolves with an HTTP response: executeWithRetry returns
\* response.data and the adapter operation maps and returns it
OperationResolves(c, response) ==
    LET call == calls[c] IN
    /\ call.pc = "request"
    /\ calls' = [calls EXCEPT ![c] =
                    [call EXCEPT !.pc = "done", !.data = Some(response),
                                 !.returned = Some(AdapterReturn(call.op, response,
                                                                 Val(call.request)))]]
    /\ UNCHANGED <<ctorArg, gateway, httpClients, payLens, admin>>

\* `await operation()` rejects: the catch block of executeWithRetry either starts
\* the backoff sleep or rethrows, and then the adapter's catch block wraps the error
OperationRejects(c, axiosError) ==
    LET call == calls[c]
        error == ResponseInterceptor(axiosError, call.attempt)
    IN
    /\ call.pc = "request"
    /\ IF retryBranch(call.attempt, error)
       THEN calls' = [calls EXCEPT ![c] =
                        [call EXCEPT !.pc = "sleep",
                                     !.errors = Append(@, error),
                                     !.trace = Append(@, <<"delay",
                                                   calculateRetryDelay(call.attempt)>>)]]
       ELSE calls' = [calls EXCEPT ![c] =
                        [call EXCEPT !.pc = "done",
                                     !.errors = Append(@, error),
                                     !.netError = Some(error),
                                     !.thrown = Some(AdapterCatch(call.op, error,
                                                                  Val(call.request)))]]
    /\ UNCHANGED <<ctorArg, gateway, httpClients, payLens, admin>>

\* SleepResolves building the wire request again for the retry, with a newly
\* generated reference when the caller gave none
SleepResolvesRegenerating(c) ==
    LET call == calls[c]
        wire == Val(call.wire)
        fresh == CHOOSE g \in GeneratedReferences :
                    g # Val(wire.body).merchantTransactionId
        rebuilt == IF call.op = "processPayment"
                      /\ ~TruthyStr(Val(call.request).reference)
                   THEN [wire EXCEPT !.body =
                            Some([Val(wire.body) EXCEPT !.merchantTransactionId = fresh])]
                   ELSE wire
    IN
    /\ call.pc = "sleep"
    /\ calls' = [calls EXCEPT ![c] =
                    [call EXCEPT !.pc = "request", !.attempt = @ + 1,
                                 !.trace = Append(@, <<"attempt", call.attempt + 1>>),
                                 !.wire = Some(rebuilt),
                                 !.sent = Append(@, rebuilt)]]
    /\ UNCHANGED <<ctorArg, gateway, httpClients, payLens, admin>>

\* a sleep whose promise is never resolved
SleepResolvesNever(c) ==
    /\ calls[c].pc = "sleep"
    /\ FALSE
    /\ UNCHANGED vars

\* `await this.sleep(delay)` resolves: executeWithRetry(operation, attempt + 1)
\* issues the next attempt
SleepResolves(c) ==
    LET call == calls[c] IN
    /\ call.pc = "sleep"
    /\ calls' = [calls EXCEPT ![c] =
                    [call EXCEPT !.pc = "request", !.attempt = @ + 1,
                                 !.trace = Append(@, <<"attempt", call.attempt + 1>>),
                                 !.sent = Append(@, Val(call.wire))]]
    /\ UNCHANGED <<ctorArg, gateway, httpClients, payLens, admin>>

\* the caller has taken the outcome of the settled call: the slot is free for the
\* next logical call
Settled(c) ==
    /\ calls[c].pc = "done"
    /\ calls' = [calls EXCEPT ![c] = IdleCall]
    /\ UNCHANGED <<ctorArg, gateway, httpClients, payLens, admin>>

\* new PeachPaymentsGateway(config)
Construct(config) ==
    /\ gateway.state = "none"
    /\ ctorArg' = Some(config)
    /\ gateway' = PeachPaymentsGateway(config)
    /\ httpClients' = httpClients + PeachPaymentsGateway(config).created
    /\ UNCHANGED <<calls, payLens, admin>>

(***************************************************************************)
(* The orchestrator (client.ts).                                           *)
(***************************************************************************)
\* a Map<string, PaymentGateway>: a function from the keys to the adapters' names
EmptyMap == [key \in {} |-> ""]
MapSet(map, key, value) ==
    [k \in DOMAIN map \cup {key} |-> IF k = key THEN value ELSE map[k]]
MapHas(map, key) == key \in DOMAIN map
MapSize(map) == Cardinality(DOMAIN map)

NoPayLens ==
    [state |-> "none", error |-> None, gateways |-> EmptyMap, defaultGateway |-> None]

NoAdmin == [op |-> "none", arg |-> None, thrown |-> None]

\* the catch block of initializeGateways rethrowing the adapter's error as it is
initializeGatewaysCatchRethrow(error) == error

\* the catch block of initializeGateways
initializeGatewaysCatch(error) ==
    ConfigurationError(<<"Failed to initialize Peach Payments gateway: ">> \o error.message,
                       Some("peachPayments"), Some(error))

\* the final check of initializeGateways never firing
NoGatewaysConfiguredNever(gateways) == FALSE

\* the final check of initializeGateways: this.gateways.size === 0
NoGatewaysConfigured(gateways) == MapSize(gateways) = 0

\* new PayLens(config): the object built (state "ok") or the error thrown (state
\* "threw")
PayLens(config) ==
    LET fresh == [NoPayLens EXCEPT !.state = "ok"]
        peachGateway == PeachPaymentsGateway(Val(config.peachPayments))
        afterPeach ==
            IF ~IsSome(config.peachPayments) THEN fresh
            ELSE IF peachGateway.state = "threw"
            THEN [NoPayLens EXCEPT !.state = "threw",
                     !.error = Some(initializeGatewaysCatch(Val(peachGateway.error)))]
            ELSE [fresh EXCEPT !.gateways = MapSet(@, "peach", name),
                               !.defaultGateway = IF ~TruthyStr(@) THEN Some("peach") ELSE @]
    IN IF afterPeach.state = "threw" THEN afterPeach
       ELSE IF NoGatewaysConfigured(afterPeach.gateways)
       THEN [NoPayLens EXCEPT !.state = "threw", !.error = Some(ConfigurationError(
                <<"No payment gateways configured. Please provide at least one gateway configuration.">>,
                None, None))]
       ELSE afterPeach

\* new PayLens(config), with the adapter it constructs on the way
NewPayLens(config) ==
    /\ payLens.state = "none"
    /\ gateway.state = "none"
    /\ payLens' = PayLens(config)
    /\ IF IsSome(config.peachPayments)
       THEN /\ ctorArg' = config.peachPayments
            /\ gateway' = PeachPaymentsGateway(Val(config.peachPayments))
            /\ httpClients' = httpClients
                                 + PeachPaymentsGateway(Val(config.peachPayments)).created
       ELSE UNCHANGED <<ctorArg, gateway, httpClients>>
    /\ UNCHANGED <<calls, admin>>

\* PayLens.getAvailableGateways: the keys of the registry
getAvailableGateways == DOMAIN payLens.gateways

\* PayLens.isGatewayAvailable answering yes to every name
isGatewayAvailableAlways(gatewayName) == TRUE

\* PayLens.isGatewayAvailable
isGatewayAvailable(gatewayName) == MapHas(payLens.gateways, gatewayName)

\* PayLens.getGatewayInfo: the info returned, or the error thrown
getGatewayInfo(gatewayName) ==
    IF ~MapHas(payLens.gateways, gatewayName)
    THEN [state |-> "threw",
          error |-> Some(ConfigurationError(<<"Gateway ", gatewayName, " not found">>,
                                            None, None)),
          info |-> None]
    ELSE [state |-> "ok", error |-> None,
          info |-> Some([name |-> name, supportedMethods |-> supportedMethods])]

\* PayLens.getGateway: the registry key the call resolves to (state "ok"), or the
\* error thrown (state "threw")
getGateway(gatewayName) ==
    LET targetGateway == IF TruthyStr(gatewayName) THEN gatewayName
                         ELSE payLens.defaultGateway
    IN IF ~TruthyStr(targetGateway)
       THEN [state |-> "threw", key |-> None,
             error |-> Some(ConfigurationError(
                          <<"No gateway specified and no default gateway set">>,
                          None, None))]
       ELSE IF ~MapHas(payLens.gateways, Val(targetGateway))
       THEN [state |-> "threw", key |-> None,
             error |-> Some(ConfigurationError(
                          <<"Gateway ", Val(targetGateway),
                            " not found. Available gateways: ", getAvailableGateways>>,
                          None, None))]
       ELSE [state |-> "ok", key |-> targetGateway, error |-> None]

\* zod's z.string().email(): the strings of the model that are e-mail addresses
WellFormedEmails == {"test@example.com"}

Currency == {"ZAR", "USD", "EUR", "GBP"}

\* AmountObjectSchema: value positive and a multiple of 0.01 (values are whole cents)
AmountObjectSchema(amount) == amount.value > 0 /\ amount.currency \in Currency

\* PaymentRequestSchema.safeParse(request).success
PaymentRequestSchema(request) ==
    /\ AmountObjectSchema(request.amount)
    /\ IsSome(request.customer) /\ Val(request.customer).email \in WellFormedEmails
    /\ request.paymentMethod \in PaymentMethod
    /\ IsSome(request.returnUrl) => Val(request.returnUrl) \in WellFormedUrls
    /\ IsSome(request.webhookUrl) => Val(request.webhookUrl) \in WellFormedUrls

\* RefundRequestSchema.safeParse(request).success
RefundRequestSchema(request) ==
    /\ request.paymentId # ""
    /\ IsSome(request.amount) => AmountObjectSchema(Val(request.amount))

\* the strings of the model that consist of white space only
WhiteSpace == {" ", "   "}

\* String.prototype.trim leaving the string as it is
trimNothing(str) == str

\* String.prototype.trim
trim(str) ==
    CASE str \in WhiteSpace -> ""
      [] str = " 8ac7a4a1 " -> "8ac7a4a1"
      [] OTHER -> str

\* a PayLens method throws before any adapter operation is invoked
Throw(c, route, request, error) ==
    /\ calls' = [calls EXCEPT ![c] =
                    [IdleCall EXCEPT !.pc = "done", !.request = Some(request),
                                     !.route = route, !.thrown = Some(error)]]
    /\ UNCHANGED <<ctorArg, gateway, httpClients, payLens, admin>>

\* PayLens.processPayment resolving the gateway before it validates the request
PayLens_processPaymentResolvingFirst(c, request, gatewayName, generated) ==
    LET route == [api |-> "processPayment", gatewayName |-> gatewayName,
                  target |-> None]
        resolved == getGateway(gatewayName)
    IN
    /\ payLens.state = "ok"
    /\ calls[c].pc = "idle"
    /\ IF resolved.state = "threw"
       THEN Throw(c, route, request, Val(resolved.error))
       ELSE IF ~PaymentRequestSchema(request)
       THEN Throw(c, route, request,
                  ValidationError(<<"Invalid payment request: ", "ZodError">>))
       ELSE IF ~supportsPaymentMethod(request.paymentMethod)
       THEN Throw(c, [route EXCEPT !.target = resolved.key], request,
                  ValidationError(<<"Gateway ", name, " does not support payment method ",
                                    request.paymentMethod>>))
       ELSE processPayment(c, [route EXCEPT !.target = resolved.key], request, generated)

\* PayLens.processPayment, up to the await of the adapter operation
PayLens_processPayment(c, request, gatewayName, generated) ==
    LET route == [api |-> "processPayment", gatewayName |-> gatewayName,
                  target |-> None]
        resolved == getGateway(gatewayName)
    IN
    /\ payLens.state = "ok"
    /\ calls[c].pc = "idle"
    /\ IF ~PaymentRequestSchema(request)
       THEN Throw(c, route, request,
                  ValidationError(<<"Invalid payment request: ", "ZodError">>))
       ELSE IF resolved.state = "threw"
       THEN Throw(c, route, request, Val(resolved.error))
       ELSE IF ~supportsPaymentMethod(request.paymentMethod)
       THEN Throw(c, [route EXCEPT !.target = resolved.key], request,
                  ValidationError(<<"Gateway ", name, " does not support payment method ",
                                    request.paymentMethod>>))
       ELSE processPayment(c, [route EXCEPT !.target = resolved.key], request, generated)

\* PayLens.getPaymentStatus, up to the await of the adapter operation
PayLens_getPaymentStatus(c, paymentId, gatewayName) ==
    LET route == [api |-> "getPaymentStatus", gatewayName |-> gatewayName,
                  target |-> None]
        resolved == getGateway(gatewayName)
    IN
    /\ payLens.state = "ok"
    /\ calls[c].pc = "idle"
    /\ IF ~TruthyStr(Some(trim(paymentId)))
       THEN Throw(c, route, paymentId, ValidationError(<<"Payment ID is required">>))
       ELSE IF resolved.state = "threw"
       THEN Throw(c, route, paymentId, Val(resolved.error))
       ELSE getPaymentStatus(c, [route EXCEPT !.target = resolved.key], paymentId)

\* PayLens.processRefund, up to the await of the adapter operation
PayLens_processRefund(c, request, gatewayName) ==
    LET route == [api |-> "processRefund", gatewayName |-> gatewayName,
                  target |-> None]
        resolved == getGateway(gatewayName)
    IN
    /\ payLens.state = "ok"
    /\ calls[c].pc = "idle"
    /\ IF ~RefundRequestSchema(request)
       THEN Throw(c, route, request,
                  ValidationError(<<"Invalid refund request: ", "ZodError">>))
       ELSE IF resolved.state = "threw"
       THEN Throw(c, route, request, Val(resolved.error))
       ELSE processRefund(c, [route EXCEPT !.target = resolved.key], request)

\* PayLens.getRefundStatus, up to the await of the adapter operation
PayLens_getRefundStatus(c, refundId, gatewayName) ==
    LET route == [api |-> "getRefundStatus", gatewayName |-> gatewayName,
                  target |-> None]
        resolved == getGateway(gatewayName)
    IN
    /\ payLens.state = "ok"
    /\ calls[c].pc = "idle"
    /\ IF ~TruthyStr(Some(trim(refundId)))
       THEN Throw(c, route, refundId, ValidationError(<<"Refund ID is required">>))
       ELSE IF resolved.state = "threw"
       THEN Throw(c, route, refundId, Val(resolved.error))
       ELSE getRefundStatus(c, [route EXCEPT !.target = resolved.key], refundId)

\* PayLens.setDefaultGateway storing the name without looking it up
setDefaultGatewayUnchecked(gatewayName) ==
    /\ payLens.state = "ok"
    /\ payLens' = [payLens EXCEPT !.defaultGateway = Some(gatewayName)]
    /\ admin' = [op |-> "setDefaultGateway", arg |-> Some(gatewayName), thrown |-> None]
    /\ UNCHANGED <<ctorArg, gateway, httpClients, calls>>

\* setDefaultGateway failing the calls in flight that were routed to the default
setDefaultGatewayAbortingCalls(gatewayName) ==
    /\ payLens.state = "ok"
    /\ IF ~MapHas(payLens.gateways, gatewayName)
       THEN /\ admin' = [op |-> "setDefaultGateway", arg |-> Some(gatewayName),
                         thrown |-> Some(ConfigurationError(
                                       <<"Gateway ", gatewayName, " not found">>,
                                       None, None))]
            /\ UNCHANGED <<payLens, calls>>
       ELSE /\ payLens' = [payLens EXCEPT !.defaultGateway = Some(gatewayName)]
            /\ admin' = [op |-> "setDefaultGateway", arg |-> Some(gatewayName),
                         thrown |-> None]
            /\ calls' = [c \in DOMAIN calls |->
                            IF calls[c].pc \in {"request", "sleep"}
                               /\ calls[c].route.api # "none"
                               /\ calls[c].route.gatewayName = None
                            THEN [calls[c] EXCEPT !.pc = "done",
                                     !.thrown = Some(ConfigurationError(
                                         <<"Default gateway changed">>, None, None))]
                            ELSE calls[c]]
    /\ UNCHANGED <<ctorArg, gateway, httpClients>>

\* setDefaultGateway forgetting the default when the name is not registered
setDefaultGatewayClearingOnMiss(gatewayName) ==
    /\ payLens.state = "ok"
    /\ IF ~MapHas(payLens.gateways, gatewayName)
       THEN /\ admin' = [op |-> "setDefaultGateway", arg |-> Some(gatewayName),
                         thrown |-> Some(ConfigurationError(
                                       <<"Gateway ", gatewayName, " not found">>,
                                       None, None))]
            /\ payLens' = [payLens EXCEPT !.defaultGateway = None]
       ELSE /\ payLens' = [payLens EXCEPT !.defaultGateway = Some(gatewayName)]
            /\ admin' = [op |-> "setDefaultGateway", arg |-> Some(gatewayName),
                         thrown |-> None]
    /\ UNCHANGED <<ctorArg, gateway, httpClients, calls>>

\* PayLens.setDefaultGateway
setDefaultGateway(gatewayName) ==
    /\ payLens.state = "ok"
    /\ IF ~MapHas(payLens.gateways, gatewayName)
       THEN /\ admin' = [op |-> "setDefaultGateway", arg |-> Some(gatewayName),
                         thrown |-> Some(ConfigurationError(
                                       <<"Gateway ", gatewayName, " not found">>,
                                       None, None))]
            /\ UNCHANGED payLens
       ELSE /\ payLens' = [payLens EXCEPT !.defaultGateway = Some(gatewayName)]
            /\ admin' = [op |-> "setDefaultGateway", arg |-> Some(gatewayName),
                         thrown |-> None]
    /\ UNCHANGED <<ctorArg, gateway, httpClients, calls>>

Init ==
    /\ ctorArg = None
    /\ gateway = NoGateway
    /\ httpClients = 0
    /\ calls = [c \in CallIds |-> IdleCall]
    /\ payLens = NoPayLens
    /\ admin = NoAdmin

(***************************************************************************)
(* Inputs.                                                                 *)
(***************************************************************************)
Option(S) == {None} \cup {Some(x) : x \in S}

\* every shape of config the constructor may be handed
PeachConfigs ==
    [entityId : {"", "8ac7a4c9"},
     username : {"", "api-user"},
     password : {"", "s3cret"},
     environment : Option({"", SANDBOX, PRODUCTION, "invalid"}),
     timeout : Option({0, 5000}),
     retries : Option(0..MaxRetriesCfg),
     apiUrl : Option({"", "not a url", "https://legacy.example.com"}),
     sandbox : Option(BOOLEAN)]

\* the configs the calls are made under: modern and legacy shape, any retry count
CallConfigs ==
    {config \in PeachConfigs :
        /\ config.entityId # "" /\ config.username # "" /\ config.password # ""
        /\ config.timeout = None
        /\ config.retries # Some(0)
        /\ \/ /\ config.environment \in {Some(SANDBOX), Some(PRODUCTION)}
              /\ config.apiUrl = None /\ config.sandbox = None
           \/ /\ config.environment = None
              /\ config.apiUrl = Some("https://legacy.example.com")
              /\ config.sandbox # None}

Amounts == {[value |-> 1050, currency |-> "ZAR"]}

PaymentRequests ==
    [amount : Amounts,
     customer : {Some([id |-> None, email |-> "test@example.com"])},
     paymentMethod : {CARD, EFT},
     reference : Option({"order-1001"}),
     billingAddress : {None},
     cardDetails : {None},
     returnUrl : {None},
     webhookUrl : {None}]

RefundRequests ==
    [paymentId : {"8ac7a4a1"},
     amount : Option(Amounts),
     reason : {None},
     reference : {None}]

PaymentIds == {"8ac7a4a1"}
RefundIds == {"8ac7a4b2"}

\* the body of a 2xx answer of the gateway
PeachResponses(codes, descriptions, brands) ==
    [id : {"8ac7a4a1"},
     paymentBrand : brands,
     amount : {<<10, 50>>},
     currency : {"ZAR"},
     result : [code : codes, description : descriptions],
     timestamp : {"2024-01-01 10:00:00+0000"},
     redirectUrl : {None}]

\* the ways an attempt fails
AxiosErrors(statuses) ==
    {AxiosError(Some([status |-> s, data |-> None]), TRUE) : s \in statuses}
    \cup {AxiosError(None, TRUE), AxiosError(None, FALSE)}

AllCodes ==
    Range(SUCCESS_CODES) \cup Range(PENDING_CODES) \cup Range(REJECTED_CODES)
    \cup Range(ERROR_CODES) \cup {"999.999.999", "100.100.100", ""}

SampleCodes == {"000.000.000", "000.200.000", "000.400.010", "900.400.500", "999.999.999"}

(***************************************************************************)
(* Specifications.                                                         *)
(***************************************************************************)
\* the adapter operations a caller may start on call slot c
StartOperation(c) ==
    \/ \E request \in PaymentRequests, generated \in GeneratedReferences :
            processPayment(c, DirectCall, request, generated)
    \/ \E paymentId \in PaymentIds : getPaymentStatus(c, DirectCall, paymentId)
    \/ \E request \in RefundRequests : processRefund(c, DirectCall, request)
    \/ \E refundId \in RefundIds : getRefundStatus(c, DirectCall, refundId)

\* one logical call at a time, any retry count
Next ==
    \/ \E config \in CallConfigs : Construct(config)
    \/ StartOperation(1)
    \/ \E response \in PeachResponses(SampleCodes, {"Transaction declined"}, {Some("VISA")}) :
            OperationResolves(1, response)
    \/ \E axiosError \in {e \in AxiosErrors({404, 500}) : e.request} :
            OperationRejects(1, axiosError)
    \/ SleepResolves(1)
    \/ Settled(1)

Spec == Init /\ [][Next]_vars

\* one logical call at a time, few retries, every result code and way of failing
CodesConfigs == {config \in CallConfigs : config.retries \in {None, Some(1), Some(2)}}

NextCodes ==
    \/ \E config \in CodesConfigs : Construct(config)
    \/ StartOperation(1)
    \/ \E response \in PeachResponses(AllCodes, {"Transaction declined", ""},
                                      {None, Some("EFTSECURE")}) :
            OperationResolves(1, response)
    \/ \E axiosError \in AxiosErrors({400, 404, 500, 503}) :
            OperationRejects(1, axiosError)
    \/ SleepResolves(1)
    \/ Settled(1)

SpecCodes == Init /\ [][NextCodes]_vars

\* construction alone, every shape of config
NextCtor == \E config \in PeachConfigs : Construct(config)

SpecCtor == Init /\ [][NextCtor]_vars

\* the configs PayLens is constructed with before calls are made: no gateway config,
\* a config with a credential missing, or a valid one with one or two attempts
PayLensCallConfigs ==
    [peachPayments : Option({config \in PeachConfigs :
        /\ config.entityId = "8ac7a4c9" /\ config.password = "s3cret"
        /\ config.environment \in {Some(SANDBOX), Some(PRODUCTION)}
        /\ config.timeout = None /\ config.apiUrl = None /\ config.sandbox = None
        /\ config.retries \in {Some(1), Some(2)}})]

\* every shape of config PayLens may be handed
PayLensConfigs == [peachPayments : Option(PeachConfigs)]

\* the gateway names a caller may pass, None when the argument is left out
GatewayNames == Option({"peach", "", "PeachPayments", "payfast"})

\* the requests a caller may hand to PayLens, valid or not
PayLensPaymentRequests ==
    [amount : [value : {1050, 0, -100}, currency : {"ZAR"}],
     customer : {Some([id |-> None, email |-> "test@example.com"]),
                 Some([id |-> None, email |-> "not an email"])},
     paymentMethod : {CARD, EFT, BANK_TRANSFER, CRYPTOCURRENCY, "paypal"},
     reference : Option({"order-1001"}),
     billingAddress : {None},
     cardDetails : {None},
     returnUrl : {None},
     webhookUrl : {None}]

PayLensRefundRequests ==
    [paymentId : {"8ac7a4a1", ""},
     amount : Option([value : {1050, 0}, currency : {"ZAR"}]),
     reason : {None},
     reference : {None}]

PayLensPaymentIds == {"8ac7a4a1", "", "   "}
PayLensRefundIds == {"8ac7a4b2", "", " "}

\* the PayLens methods a caller may start on call slot c
StartPayLensOperation(c) ==
    \/ \E request \in PayLensPaymentRequests, gatewayName \in GatewayNames,
          generated \in GeneratedReferences :
            PayLens_processPayment(c, request, gatewayName, generated)
    \/ \E paymentId \in PayLensPaymentIds, gatewayName \in GatewayNames :
            PayLens_getPaymentStatus(c, paymentId, gatewayName)
    \/ \E request \in PayLensRefundRequests, gatewayName \in GatewayNames :
            PayLens_processRefund(c, request, gatewayName)
    \/ \E refundId \in PayLensRefundIds, gatewayName \in GatewayNames :
            PayLens_getRefundStatus(c, refundId, gatewayName)

\* calls through the orchestrator, one logical call at a time
NextPayLens ==
    \/ \E config \in PayLensCallConfigs : NewPayLens(config)
    \/ StartPayLensOperation(1)
    \/ \E gatewayName \in {"peach", "", "payfast"} : setDefaultGateway(gatewayName)
    \/ \E response \in PeachResponses(SampleCodes, {"Transaction declined"}, {Some("VISA")}) :
            OperationResolves(1, response)
    \/ \E axiosError \in {e \in AxiosErrors({404, 500}) : e.request} :
            OperationRejects(1, axiosError)
    \/ SleepResolves(1)
    \/ Settled(1)

SpecPayLens == Init /\ [][NextPayLens]_vars

\* construction of the orchestrator alone, every shape of config
NextPayLensCtor == \E config \in PayLensConfigs : NewPayLens(config)

SpecPayLensCtor == Init /\ [][NextPayLensCtor]_vars

\* valid payment requests of every supported method and several amounts
RoundTripRequests ==
    [amount : [value : {1, 1050, 2599, 100000}, currency : {"ZAR", "USD"}],
     customer : {Some([id |-> None, email |-> "test@example.com"])},
     paymentMethod : {CARD, EFT, MOBILE_WALLET},
     reference : Option({"order-1001"}),
     billingAddress : {None},
     cardDetails : {None},
     returnUrl : {None},
     webhookUrl : {None}]

\* payments alone, every valid request shape against every result code
NextRoundTrip ==
    \/ \E config \in {c \in CodesConfigs : c.retries = Some(2) /\ c.sandbox = None} :
            Construct(config)
    \/ \E request \in RoundTripRequests, generated \in GeneratedReferences :
            processPayment(1, DirectCall, request, generated)
    \/ \E response \in PeachResponses(AllCodes, {"Transaction declined"},
                                      {None, Some("VISA"), Some("EFTSECURE")}) :
            OperationResolves(1, response)
    \/ \E axiosError \in {e \in AxiosErrors({500}) : e.request} :
            OperationRejects(1, axiosError)
    \/ SleepResolves(1)
    \/ Settled(1)

SpecRoundTrip == Init /\ [][NextRoundTrip]_vars

\* the configs of the concurrent calls: two or three attempts
ConcurrentConfigs ==
    {config \in CodesConfigs :
        /\ config.environment = Some(SANDBOX)
        /\ config.retries \in {Some(2), None}}

\* what the gateway answers in the concurrent runs
ConcurrentResponses == PeachResponses({"000.000.000"}, {"Transaction declined"}, {Some("VISA")})
ConcurrentErrors == {e \in AxiosErrors({404, 500}) : e.request}

\* the calls in flight at the same time on one adapter and one transport: every
\* slot starts, fails, sleeps and settles independently of the steps of the others
NextConcurrent ==
    \/ \E config \in ConcurrentConfigs : Construct(config)
    \/ \E c \in CallIds, paymentId \in PaymentIds : getPaymentStatus(c, DirectCall, paymentId)
    \/ \E c \in CallIds, response \in ConcurrentResponses : OperationResolves(c, response)
    \/ \E c \in CallIds, axiosError \in ConcurrentErrors : OperationRejects(c, axiosError)
    \/ \E c \in CallIds : SleepResolves(c)
    \/ \E c \in CallIds : Settled(c)

SpecConcurrent == Init /\ [][NextConcurrent]_vars

\* the HTTP attempt of call c returns or fails
AttemptSettles(c) ==
    \/ \E response \in ConcurrentResponses : OperationResolves(c, response)
    \/ \E axiosError \in AxiosErrors({404, 503}) : OperationRejects(c, axiosError)

\* one logical call at a time under fair scheduling: the per-request timeout makes
\* every attempt return or fail, and the timer of every sleep fires
NextTermination ==
    \/ \E config \in CodesConfigs : Construct(config)
    \/ \E request \in PaymentRequests, generated \in GeneratedReferences :
            processPayment(1, DirectCall, request, generated)
    \/ \E request \in RefundRequests : processRefund(1, DirectCall, request)
    \/ AttemptSettles(1)
    \/ SleepResolves(1)
    \/ Settled(1)

SpecTermination ==
    /\ Init /\ [][NextTermination]_vars
    /\ WF_vars(AttemptSettles(1))
    /\ WF_vars(SleepResolves(1))

(***************************************************************************)
(* Vocabulary of the properties.                                           *)
(***************************************************************************)
\* the retry bound of the constructed transport as the configuration states it
MaxRetries == IF Val(ctorArg).retries = None THEN 3 ELSE Val(Val(ctorArg).retries)

\* a normalized failure with no HTTP status or with a status of 500 or more
Retryable(error) == error.statusCode = None \/ Val(error.statusCode) >= 500

\* the attempts issued and the backoff delays started by a call, in order
AttemptsOf(call) == SelectSeq(call.trace, LAMBDA e : e[1] = "attempt")
DelaysOf(call) == SelectSeq(call.trace, LAMBDA e : e[1] = "delay")

\* failed attempt i of the call is followed by a further attempt: the attempt was
\* issued, or its backoff sleep is under way
FollowedUp(call, i) == i < call.attempt \/ (i = call.attempt /\ call.pc = "sleep")

Started(call) == call.pc # "idle"

(***************************************************************************)
(* C1: in the retry loop, failed attempt number i is followed by a further *)
(* attempt if and only if i < maxRetries and the failure is retryable (no  *)
(* HTTP status, or status >= 500); a 4xx failure and a successful response *)
(* are never followed by another attempt.                                  *)
(***************************************************************************)
C1_RetryIffBelowBoundAndRetryable ==
    \A c \in CallIds :
        LET call == calls[c] IN
        Started(call) =>
            /\ \A i \in 1..Len(call.errors) :
                  FollowedUp(call, i) <=> (i < MaxRetries /\ Retryable(call.errors[i]))
            /\ \A i \in 1..Len(call.errors) :
                  (/\ call.errors[i].statusCode # None
                   /\ Val(call.errors[i].statusCode) \in 400..499) => ~FollowedUp(call, i)
            /\ call.data # None =>
                  /\ call.pc = "done"
                  /\ Len(AttemptsOf(call)) = call.attempt
                  /\ call.trace[Len(call.trace)] = <<"attempt", call.attempt>>

\* a call retried once after a 500 and then stopped by a 404
C1_Witness ==
    /\ calls[1].pc = "done"
    /\ Len(calls[1].errors) = 2
    /\ calls[1].errors[1].statusCode = Some(500)
    /\ calls[1].errors[2].statusCode = Some(404)
    /\ MaxRetries > 2

(***************************************************************************)
(* C2: with maxRetries = 3, a call whose first two attempts fail with      *)
(* status 500 and whose third succeeds returns the response data, throws   *)
(* nothing and performs exactly two delays, 1000 ms then 2000 ms, each     *)
(* between two consecutive attempts; a call whose first attempt fails with *)
(* 404 performs one attempt, no delay, and throws.                         *)
(***************************************************************************)
C2_TwoFailuresThenSuccess ==
    \A c \in CallIds :
        LET call == calls[c] IN
        (Started(call) /\ MaxRetries = 3) =>
            /\ (/\ Len(call.errors) = 2
                /\ call.errors[1].statusCode = Some(500)
                /\ call.errors[2].statusCode = Some(500)
                /\ call.data # None) =>
                    /\ call.pc = "done"
                    /\ call.returned # None
                    /\ call.thrown = None /\ call.netError = None
                    /\ call.trace = << <<"attempt", 1>>, <<"delay", 1000>>,
                                       <<"attempt", 2>>, <<"delay", 2000>>,
                                       <<"attempt", 3>> >>
            /\ (/\ Len(call.errors) >= 1
                /\ call.errors[1].statusCode = Some(404)) =>
                    /\ call.pc = "done"
                    /\ call.trace = << <<"attempt", 1>> >>
                    /\ call.thrown # None /\ call.netError = Some(call.errors[1])
                    /\ call.returned = None /\ call.data = None

C2_Witness ==
    /\ calls[1].pc = "done"
    /\ MaxRetries = 3
    /\ calls[1].data # None
    /\ Len(calls[1].errors) = 2
    /\ calls[1].errors[1].statusCode = Some(500)
    /\ calls[1].errors[2].statusCode = Some(500)

(***************************************************************************)
(* C3: a call whose every attempt fails retryably makes exactly maxRetries *)
(* attempts (the configured retries, 3 when unset), then stops and throws  *)
(* the error of the final attempt.                                         *)
(***************************************************************************)
C3_ExhaustionAfterMaxRetriesAttempts ==
    \A c \in CallIds :
        LET call == calls[c]
            n == Len(call.errors)
        IN
        (/\ Started(call)
         /\ n >= 1
         /\ \A i \in 1..n : Retryable(call.errors[i])) =>
            /\ n <= MaxRetries
            /\ n < MaxRetries => call.pc # "done" \/ call.data # None
            /\ (n = MaxRetries /\ n = call.attempt) =>
                  /\ call.pc = "done"
                  /\ Len(AttemptsOf(call)) = MaxRetries
                  /\ call.netError = Some(call.errors[n])
                  /\ call.errors[n].id = MaxRetries
                  /\ call.thrown # None
                  /\ Val(call.thrown).cause = Some(call.errors[n])

\* five retryable failures in a row exhaust a transport configured with retries = 5
C3_Witness ==
    /\ calls[1].pc = "done"
    /\ MaxRetries = 5
    /\ calls[1].thrown # None
    /\ Len(calls[1].errors) = 5
    /\ \A i \in 1..5 : Retryable(calls[1].errors[i])

(***************************************************************************)
(* C4: `retries` is the number of retries: a call whose every attempt      *)
(* fails retryably is retried exactly `retries` times after the initial    *)
(* attempt (retries + 1 attempts; 4 attempts when retries is unset).       *)
(***************************************************************************)
C4_RetriedRetriesTimes ==
    \A c \in CallIds :
        LET call == calls[c]
            n == Len(call.errors)
        IN
        (/\ call.pc = "done"
         /\ call.netError # None
         /\ \A i \in 1..n : Retryable(call.errors[i])) =>
            /\ Len(AttemptsOf(call)) = MaxRetries + 1
            /\ Len(DelaysOf(call)) = MaxRetries

\* the documented backoff sequence
ExpectedDelay(n) ==
    CASE n = 1 -> 1000
      [] n = 2 -> 2000
      [] n = 3 -> 4000
      [] n = 4 -> 8000
      [] OTHER -> 10000

(***************************************************************************)
(* C5: the backoff delay before the n-th retry is                          *)
(* min(1000 * 2^(n-1), 10000) ms: 1000, 2000, 4000, 8000, then 10000 for   *)
(* every later retry; the sequence never decreases and never exceeds       *)
(* 10000 ms.                                                               *)
(***************************************************************************)
C5_BackoffDelays ==
    \A c \in CallIds :
        LET call == calls[c]
            delays == DelaysOf(call)
        IN
        /\ \A n \in 1..Len(delays) :
              /\ delays[n][2] = ExpectedDelay(n)
              /\ delays[n][2] <= 10000
              /\ n > 1 => delays[n - 1][2] <= delays[n][2]
              \* the n-th delay follows attempt n and precedes attempt n + 1
              /\ call.trace[2 * n - 1] = <<"attempt", n>>
              /\ call.trace[2 * n] = delays[n]
        /\ Len(delays) = Len(call.errors) - (IF call.netError # None THEN 1 ELSE 0)

\* a call in its sixth backoff delay
C5_Witness ==
    /\ calls[1].pc = "sleep"
    /\ Len(DelaysOf(calls[1])) = 6

\* the four tables of the classification
Buckets == <<SUCCESS_CODES, PENDING_CODES, REJECTED_CODES, ERROR_CODES>>

(***************************************************************************)
(* C6: the status classification maps every code of the success bucket to  *)
(* completed, of the pending bucket to processing, of the rejected and the *)
(* system-error buckets to failed, and every code in none of the four      *)
(* buckets to pending; the four buckets are pairwise disjoint.             *)
(***************************************************************************)
C6_StatusClassification ==
    /\ \A i, j \in 1..Len(Buckets) :
          i # j => Range(Buckets[i]) \cap Range(Buckets[j]) = {}
    /\ \A c \in CallIds :
          LET call == calls[c] IN
          call.returned # None =>
              LET code == Val(call.data).result.code
                  status == Val(call.returned).status
              IN
              /\ code \in Range(SUCCESS_CODES) => status = "completed"
              /\ code \in Range(PENDING_CODES) => status = "processing"
              /\ code \in Range(REJECTED_CODES) => status = "failed"
              /\ code \in Range(ERROR_CODES) => status = "failed"
              /\ (\A i \in 1..Len(Buckets) : code \notin Range(Buckets[i])) =>
                    status = "pending"

\* a payment answered with a pending-bucket code is reported as processing
C6_Witness ==
    /\ calls[1].returned # None
    /\ Val(calls[1].data).result.code = "800.400.500"
    /\ Val(calls[1].returned).status = "processing"

(***************************************************************************)
(* C7: in every PaymentResponse of processPayment and getPaymentStatus,    *)
(* failureReason is the gateway's result description if and only if the    *)
(* status is failed; for every other status it is undefined.               *)
(***************************************************************************)
C7_FailureReasonIffFailed ==
    \A c \in CallIds :
        LET call == calls[c] IN
        (call.op \in {"processPayment", "getPaymentStatus"} /\ call.returned # None) =>
            LET response == Val(call.returned) IN
            /\ response.status = "failed" =>
                  response.failureReason = Some(Val(call.data).result.description)
            /\ response.status # "failed" => response.failureReason = None

\* a status lookup answered with a success code carries no failureReason
C7_Witness ==
    /\ calls[1].op = "getPaymentStatus"
    /\ calls[1].returned # None
    /\ Val(calls[1].returned).status = "completed"
    /\ Val(calls[1].returned).failureReason = None

(***************************************************************************)
(* C8: a gateway-reported rejection is never thrown: a successful HTTP     *)
(* response whose result code is in the rejected or system-error bucket    *)
(* makes processPayment / getPaymentStatus return a PaymentResponse with   *)
(* status failed and failureReason set; an adapter operation throws only   *)
(* when its transport call failed.                                         *)
(***************************************************************************)
C8_RejectionIsReturnedNotThrown ==
    \A c \in CallIds :
        LET call == calls[c] IN
        /\ (/\ call.op \in {"processPayment", "getPaymentStatus"}
            /\ call.data # None
            /\ Val(call.data).result.code \in Range(REJECTED_CODES) \cup Range(ERROR_CODES)) =>
                /\ call.thrown = None
                /\ call.returned # None
                /\ Val(call.returned).status = "failed"
                /\ Val(call.returned).failureReason =
                       Some(Val(call.data).result.description)
        /\ call.thrown # None =>
                /\ call.netError # None
                /\ call.data = None
                /\ call.returned = None

\* a declined card: processPayment returned a failed PaymentResponse
C8_Witness ==
    /\ calls[1].op = "processPayment"
    /\ calls[1].pc = "done"
    /\ Val(calls[1].data).result.code = "000.400.010"
    /\ calls[1].thrown = None
    /\ Val(calls[1].returned).status = "failed"

\* the malformed configs: an empty credential, an environment outside the enum, or
\* no environment without both legacy fields
Malformed(config) ==
    \/ config.entityId = ""
    \/ config.username = ""
    \/ config.password = ""
    \/ config.environment # None /\ Val(config.environment) \notin {"sandbox", "production"}
    \/ config.environment = None /\ (config.apiUrl = None \/ config.sandbox = None)

(***************************************************************************)
(* C9: for every malformed Peach config (empty entityId, username or       *)
(* password, or an environment value outside {sandbox, production},        *)
(* including a config that has neither environment nor both legacy         *)
(* fields), the constructor throws ValidationError and no HttpClient is    *)
(* constructed before the throw.                                           *)
(***************************************************************************)
C9_MalformedConfigThrows ==
    (ctorArg # None /\ Malformed(Val(ctorArg))) =>
        /\ gateway.state = "threw"
        /\ Val(gateway.error).name = "ValidationError"
        /\ gateway.httpClient = None
        /\ httpClients = 0

\* a legacy-shape config whose other fields are valid
LegacyConfig(config) ==
    /\ config.environment = None
    /\ config.apiUrl = Some("https://legacy.example.com")
    /\ config.sandbox # None
    /\ config.entityId # "" /\ config.username # "" /\ config.password # ""
    /\ config.timeout # Some(0)
    /\ config.retries # Some(0)

(***************************************************************************)
(* C10: a legacy config (apiUrl and boolean sandbox present, no            *)
(* environment) with otherwise valid fields is accepted, is normalized to  *)
(* environment sandbox when sandbox is true and production when it is      *)
(* false, and the transport's base endpoint is the given apiUrl, not the   *)
(* environment table's URL.                                                *)
(***************************************************************************)
C10_LegacyConfigNormalized ==
    (ctorArg # None /\ LegacyConfig(Val(ctorArg))) =>
        LET config == Val(ctorArg) IN
        /\ gateway.state = "ok"
        /\ Val(gateway.peachConfig).environment =
              Some(IF Val(config.sandbox) THEN "sandbox" ELSE "production")
        /\ Val(gateway.httpClient).baseURL = "https://legacy.example.com"
        /\ Val(gateway.httpClient).baseURL \notin
              {"https://testapi-v2.peachpayments.com", "https://api-v2.peachpayments.com"}
        /\ httpClients = 1

\* a legacy production config: sandbox false, explicit apiUrl
C10_Witness ==
    /\ ctorArg # None
    /\ LegacyConfig(Val(ctorArg))
    /\ Val(ctorArg).sandbox = Some(FALSE)
    /\ gateway.state = "ok"
    /\ Val(gateway.peachConfig).environment = Some("production")

(***************************************************************************)
(* C11: endpoint resolution: an explicit apiUrl is the base endpoint even  *)
(* when environment is also set; otherwise the base endpoint is the table  *)
(* URL of the environment (sandbox -> https://testapi-v2.peachpayments.com,*)
(* production -> https://api-v2.peachpayments.com).                        *)
(***************************************************************************)
C11_EndpointResolution ==
    gateway.state = "ok" =>
        LET config == Val(ctorArg)
            baseURL == Val(gateway.httpClient).baseURL
            environment == Val(Val(gateway.peachConfig).environment)
        IN
        /\ config.apiUrl # None => baseURL = Val(config.apiUrl)
        /\ (config.apiUrl = None /\ environment = "sandbox") =>
              baseURL = "https://testapi-v2.peachpayments.com"
        /\ (config.apiUrl = None /\ environment = "production") =>
              baseURL = "https://api-v2.peachpayments.com"
        /\ Val(gateway.config).apiUrl = baseURL

\* modern shape with an explicit apiUrl: environment production, endpoint the apiUrl
C11_Witness ==
    /\ gateway.state = "ok"
    /\ Val(ctorArg).environment = Some("production")
    /\ Val(ctorArg).apiUrl = Some("https://legacy.example.com")
    /\ Val(gateway.httpClient).baseURL = "https://legacy.example.com"

(***************************************************************************)
(* C12: constructing PayLens with a config map that holds no gateway       *)
(* config throws ConfigurationError; no PayLens with an empty registry     *)
(* exists.                                                                 *)
(***************************************************************************)
C12_NoGatewayConfigThrows ==
    /\ (payLens.state # "none" /\ gateway.state = "none") =>
          /\ payLens.state = "threw"
          /\ Val(payLens.error).name = "ConfigurationError"
    /\ payLens.state = "ok" => DOMAIN payLens.gateways # {}

\* PayLens was constructed without a gateway config and threw
C12_Witness ==
    /\ payLens.state = "threw"
    /\ gateway.state = "none"
    /\ Val(payLens.error).name = "ConfigurationError"

\* the names of the model other than the registry key of the Peach adapter
OtherNames == {"", "PeachPayments", "payfast", "Peach", "peach "}

(***************************************************************************)
(* C13: after constructing PayLens with exactly one valid gateway config,  *)
(* that gateway is registered under 'peach', is the default gateway used   *)
(* by calls that give no gateway name, getAvailableGateways returns        *)
(* exactly that name, and isGatewayAvailable is true for it and false for  *)
(* every other name.                                                       *)
(***************************************************************************)
C13_SingleGatewayRegisteredAndDefault ==
    payLens.state = "ok" =>
        /\ DOMAIN payLens.gateways = {"peach"}
        /\ payLens.gateways["peach"] = "PeachPayments"
        /\ payLens.defaultGateway = Some("peach")
        /\ getAvailableGateways = {"peach"}
        /\ isGatewayAvailable("peach")
        /\ \A other \in OtherNames : ~isGatewayAvailable(other)
        /\ \A c \in CallIds :
              (calls[c].op # "none" /\ calls[c].route.api # "none"
                 /\ calls[c].route.gatewayName = None) =>
                    calls[c].route.target = Some("peach")

\* a call that gave no gateway name was delegated to the adapter under 'peach'
C13_Witness ==
    /\ payLens.state = "ok"
    /\ calls[1].route.api = "getPaymentStatus"
    /\ calls[1].route.gatewayName = None
    /\ calls[1].op = "getPaymentStatus"
    /\ calls[1].route.target = Some("peach")

(***************************************************************************)
(* C14: when the adapter's construction fails inside the construction of   *)
(* PayLens, the error thrown is a ConfigurationError (not the adapter's    *)
(* ValidationError) whose parameter is 'peachPayments' and whose cause is  *)
(* the adapter's original error; no PayLens instance results.              *)
(***************************************************************************)
C14_AdapterFailureWrapped ==
    (payLens.state # "none" /\ gateway.state = "threw") =>
        /\ payLens.state = "threw"
        /\ Val(payLens.error).name = "ConfigurationError"
        /\ Val(payLens.error).parameter = Some("peachPayments")
        /\ Val(payLens.error).cause = gateway.error
        /\ Val(Val(payLens.error).cause).name = "ValidationError"
        /\ payLens.gateways = EmptyMap /\ payLens.defaultGateway = None

\* the adapter rejected a config without entityId and PayLens threw
C14_Witness ==
    /\ gateway.state = "threw"
    /\ Val(ctorArg).entityId = ""
    /\ payLens.state = "threw"
    /\ Val(payLens.error).parameter = Some("peachPayments")

\* the input of a PayLens call passed the method's own validation
ValidInput(call) ==
    CASE call.route.api = "processPayment" ->
            /\ Val(call.request).amount.value > 0
            /\ Val(Val(call.request).customer).email = "test@example.com"
            /\ Val(call.request).paymentMethod \in {"card", "eft", "mobile_wallet"}
      [] call.route.api = "processRefund" ->
            /\ Val(call.request).paymentId # ""
            /\ Val(call.request).amount # None => Val(Val(call.request).amount).value > 0
      [] call.route.api \in {"getPaymentStatus", "getRefundStatus"} ->
            Val(call.request) \notin {"", " ", "   "}
      [] OTHER -> FALSE

(***************************************************************************)
(* C15: routing: a call that supplies a gateway name is delegated to the   *)
(* adapter registered under exactly that name, a call that supplies none   *)
(* is delegated to the current default, and for every supplied name that   *)
(* is not a registered name (any string, the empty string included) the    *)
(* call throws ConfigurationError and no adapter operation is invoked.     *)
(***************************************************************************)
C15_RoutingByName ==
    \A c \in CallIds :
        LET call == calls[c] IN
        (Started(call) /\ ValidInput(call)) =>
            IF call.route.gatewayName = None
            THEN call.op = call.route.api /\ call.route.target = payLens.defaultGateway
            ELSE IF Val(call.route.gatewayName) \in DOMAIN payLens.gateways
            THEN call.op = call.route.api /\ call.route.target = call.route.gatewayName
            ELSE /\ call.pc = "done"
                 /\ Val(call.thrown).name = "ConfigurationError"
                 /\ call.op = "none"

(***************************************************************************)
(* C16: processPayment with a schema-valid request whose paymentMethod is  *)
(* not supported by the resolved adapter (bank_transfer, cryptocurrency)   *)
(* throws ValidationError; the adapter's processPayment is never invoked   *)
(* and no transport attempt is made.                                       *)
(***************************************************************************)
C16_UnsupportedMethodRejected ==
    \A c \in CallIds :
        LET call == calls[c] IN
        (/\ call.route.api = "processPayment"
         /\ Val(call.request).amount.value > 0
         /\ Val(Val(call.request).customer).email = "test@example.com"
         /\ Val(call.request).paymentMethod \in {"bank_transfer", "cryptocurrency"}
         /\ call.route.target # None) =>
            /\ call.pc = "done"
            /\ call.thrown # None /\ Val(call.thrown).name = "ValidationError"
            /\ call.op = "none"
            /\ call.attempt = 0 /\ call.sent = <<>> /\ call.trace = <<>>

\* a cryptocurrency payment routed to 'peach' was rejected
C16_Witness ==
    /\ calls[1].route.api = "processPayment"
    /\ calls[1].route.target = Some("peach")
    /\ Val(calls[1].request).paymentMethod = "cryptocurrency"
    /\ Val(calls[1].thrown).name = "ValidationError"

\* the input of a PayLens call is one the method must reject
InvalidInput(call) ==
    CASE call.route.api = "processPayment" ->
            \/ Val(call.request).amount.value <= 0
            \/ Val(Val(call.request).customer).email = "not an email"
            \/ Val(call.request).paymentMethod = "paypal"
      [] call.route.api = "processRefund" ->
            \/ Val(call.request).paymentId = ""
            \/ Val(call.request).amount # None /\ Val(Val(call.request).amount).value <= 0
      [] call.route.api \in {"getPaymentStatus", "getRefundStatus"} ->
            Val(call.request) \in {"", " ", "   "}
      [] OTHER -> FALSE

(***************************************************************************)
(* C17: PayLens rejects invalid input before touching any adapter:         *)
(* getPaymentStatus / getRefundStatus with an empty or whitespace-only id  *)
(* and processPayment / processRefund with a request that fails schema     *)
(* validation throw ValidationError at once; no adapter operation is       *)
(* invoked, no attempt is made and nothing is retried, whatever the        *)
(* gateway name given.                                                     *)
(***************************************************************************)
C17_InvalidInputRejectedFirst ==
    \A c \in CallIds :
        LET call == calls[c] IN
        (Started(call) /\ InvalidInput(call)) =>
            /\ call.pc = "done"
            /\ Val(call.thrown).name = "ValidationError"
            /\ call.op = "none" /\ call.route.target = None
            /\ call.attempt = 0 /\ call.sent = <<>> /\ call.trace = <<>>

\* a whitespace-only payment id was rejected although the gateway name is unknown too
C17_Witness ==
    /\ calls[1].route.api = "getPaymentStatus"
    /\ calls[1].request = Some("   ")
    /\ calls[1].route.gatewayName = Some("payfast")
    /\ Val(calls[1].thrown).name = "ValidationError"
    /\ calls[1].op = "none"

(***************************************************************************)
(* C18: setDefaultGateway(name) with a registered name makes it the        *)
(* default used by later calls that give no gateway name; with an          *)
(* unregistered name it throws ConfigurationError and leaves the default   *)
(* and the registry unchanged.                                             *)
(***************************************************************************)
C18_SetDefaultGateway ==
    [][/\ (payLens.state = "ok" /\ <<payLens, admin>>' # <<payLens, admin>>) =>
            /\ admin'.op = "setDefaultGateway"
            /\ IF Val(admin'.arg) \in DOMAIN payLens.gateways
               THEN /\ admin'.thrown = None
                    /\ payLens'.defaultGateway = admin'.arg
                    /\ payLens'.gateways = payLens.gateways
               ELSE /\ admin'.thrown # None
                    /\ Val(admin'.thrown).name = "ConfigurationError"
                    /\ payLens' = payLens
       /\ (calls[1].pc = "idle" /\ calls'[1].op # "none"
             /\ calls'[1].route.api # "none" /\ calls'[1].route.gatewayName = None) =>
            calls'[1].route.target = payLens.defaultGateway]_vars

\* the default was set to 'peach' and a call without a gateway name went there
C18_Witness ==
    /\ admin.op = "setDefaultGateway"
    /\ admin.arg = Some("peach") /\ admin.thrown = None
    /\ payLens.defaultGateway = Some("peach")
    /\ calls[1].op = "processRefund"
    /\ calls[1].route.gatewayName = None
    /\ calls[1].route.target = Some("peach")

(***************************************************************************)
(* C19: round trip through the adapter: for every valid PaymentRequest,    *)
(* when the gateway answers the create-payment call with a success-bucket  *)
(* result code, the PaymentResponse returned by processPayment has the     *)
(* request's amount, the request's paymentMethod and status completed.     *)
(***************************************************************************)
C19_RoundTripPreservesRequest ==
    \A c \in CallIds :
        LET call == calls[c] IN
        (/\ call.op = "processPayment" /\ call.pc = "done" /\ call.data # None
         /\ Val(call.data).result.code \in
               {"000.000.000", "000.000.100", "000.100.110", "000.100.111", "000.100.112"}) =>
            /\ call.returned # None
            /\ Val(call.returned).amount = Val(call.request).amount
            /\ Val(call.returned).paymentMethod = Val(call.request).paymentMethod
            /\ Val(call.returned).status = "completed"
            /\ parseFloat(Val(Val(call.wire).body).amount) = Val(call.request).amount.value

\* a mobile-wallet payment of 25.99 USD answered with a success code and the brand EFTSECURE
C19_Witness ==
    /\ calls[1].op = "processPayment" /\ calls[1].pc = "done"
    /\ Val(calls[1].request).paymentMethod = "mobile_wallet"
    /\ Val(calls[1].request).amount = [value |-> 2599, currency |-> "USD"]
    /\ Val(calls[1].data).result.code = "000.100.110"
    /\ Val(calls[1].data).paymentBrand = Some("EFTSECURE")
    /\ Val(calls[1].returned).status = "completed"

(***************************************************************************)
(* C20: every transport failure surfaced to an adapter operation (after    *)
(* retry exhaustion or a non-retryable failure) is thrown to the caller as *)
(* a domain error carrying the transport error as its cause:               *)
(* processPayment and getPaymentStatus throw PaymentError (getPaymentStatus*)
(* with the requested id as paymentId), processRefund throws RefundError   *)
(* with paymentId = request.paymentId, getRefundStatus throws RefundError  *)
(* with the requested id as refundId; a raw NetworkError never escapes.    *)
(***************************************************************************)
C20_TransportFailureWrapped ==
    \A c \in CallIds :
        LET call == calls[c] IN
        (call.pc = "done" /\ call.netError # None) =>
            /\ Val(call.netError).name = "NetworkError"
            /\ call.returned = None /\ call.thrown # None
            /\ Val(call.thrown).cause = call.netError
            /\ Val(call.thrown).name # "NetworkError"
            /\ call.op \in {"processPayment", "getPaymentStatus"} =>
                  Val(call.thrown).name = "PaymentError"
            /\ call.op = "getPaymentStatus" => Val(call.thrown).paymentId = call.request
            /\ call.op \in {"processRefund", "getRefundStatus"} =>
                  Val(call.thrown).name = "RefundError"
            /\ call.op = "processRefund" =>
                  Val(call.thrown).paymentId = Some(Val(call.request).paymentId)
            /\ call.op = "getRefundStatus" => Val(call.thrown).refundId = call.request

\* a refund-status lookup whose two attempts failed with 503 threw a RefundError
C20_Witness ==
    /\ calls[1].op = "getRefundStatus" /\ calls[1].pc = "done"
    /\ calls[1].attempt = 2
    /\ calls[1].netError # None
    /\ Val(calls[1].netError).statusCode = Some(503)
    /\ Val(calls[1].thrown).name = "RefundError"
    /\ Val(calls[1].thrown).refundId = Some("8ac7a4b2")

(***************************************************************************)
(* C21: a RefundRequest without amount is forwarded as a full-refund       *)
(* request whose amount is left to the gateway: the wire refund request    *)
(* sent by processRefund carries no concrete refund amount and no currency *)
(* chosen by the adapter itself.                                           *)
(***************************************************************************)
C21_FullRefundLeavesAmountToGateway ==
    \A c \in CallIds :
        LET call == calls[c] IN
        (call.op = "processRefund" /\ Val(call.request).amount = None) =>
            \A i \in 1..Len(call.sent) :
                /\ Val(call.sent[i].body).amount = None
                /\ Val(call.sent[i].body).currency \notin {"ZAR", "USD", "EUR", "GBP"}

(***************************************************************************)
(* C22: retry backoff suspends only the call that is retrying: while one   *)
(* call is waiting in its backoff delay, any other call on the same        *)
(* adapter and transport can start, have its attempt answered or failed,   *)
(* leave its own delay and settle; no call is unable to progress because   *)
(* another call is in backoff.                                             *)
(***************************************************************************)
C22_BackoffBlocksOnlyItsCall ==
    \A c \in CallIds, d \in CallIds :
        (c # d /\ gateway.state = "ok" /\ calls[c].pc = "sleep") =>
            /\ calls[d].pc = "idle" =>
                  ENABLED getPaymentStatus(d, DirectCall, "8ac7a4a1")
            /\ calls[d].pc = "request" =>
                  /\ ENABLED (\E response \in ConcurrentResponses :
                                  OperationResolves(d, response))
                  /\ ENABLED (\E axiosError \in ConcurrentErrors :
                                  OperationRejects(d, axiosError))
            /\ calls[d].pc = "sleep" => ENABLED SleepResolves(d)
            /\ calls[d].pc = "done" => ENABLED Settled(d)

\* call 2 has completed its second attempt while call 1 is in its first backoff delay
C22_Witness ==
    /\ calls[1].pc = "sleep" /\ calls[1].attempt = 1
    /\ calls[2].pc = "done" /\ calls[2].attempt = 2
    /\ calls[2].returned # None

(***************************************************************************)
(* C23: concurrent calls on one transport share no retry state: under      *)
(* every interleaving each call has its own attempt counter, so the number *)
(* of its attempts, its delays and its outcome follow from the results of  *)
(* its own attempts alone, whatever the other calls in flight do.          *)
(***************************************************************************)
C23_PerCallRetryState ==
    \A c \in CallIds :
        LET call == calls[c]
            n == Len(call.errors)
            delays == DelaysOf(call)
        IN
        Started(call) =>
            /\ \A i \in 1..n : call.errors[i].id = i
            /\ \A i \in 1..(n - 1) : Retryable(call.errors[i]) /\ i < MaxRetries
            /\ AttemptsOf(call) = [i \in 1..call.attempt |-> <<"attempt", i>>]
            /\ \A i \in 1..Len(delays) : delays[i][2] = ExpectedDelay(i)
            /\ call.pc = "request" => call.attempt = n + 1 /\ Len(delays) = n
            /\ call.pc = "sleep" =>
                  /\ call.attempt = n /\ Len(delays) = n
                  /\ Retryable(call.errors[n]) /\ n < MaxRetries
            /\ (call.pc = "done" /\ call.data # None) =>
                  /\ call.attempt = n + 1 /\ Len(delays) = n
                  /\ call.returned # None /\ call.thrown = None
            /\ (call.pc = "done" /\ call.data = None) =>
                  /\ n >= 1 /\ call.attempt = n /\ Len(delays) = n - 1
                  /\ ~Retryable(call.errors[n]) \/ n = MaxRetries
                  /\ call.thrown # None
                  /\ Val(call.thrown).cause = Some(call.errors[n])

\* call 1 has used up its attempts while call 2 is in the delay after its first
C23_Witness ==
    /\ calls[1].pc = "done" /\ calls[1].thrown # None
    /\ Len(calls[1].errors) = MaxRetries
    /\ calls[2].pc = "sleep" /\ calls[2].attempt = 1

\* call c came through PayLens and its adapter operation is in flight
InFlight(call) == call.route.api # "none" /\ call.pc \in {"request", "sleep"}

(***************************************************************************)
(* C24: under every interleaving of setDefaultGateway with calls in        *)
(* flight, a call made without a gateway name is served for all of its     *)
(* attempts and retries by one adapter, the one that was the default when  *)
(* the call resolved it, never by another, and a change of the default     *)
(* never makes a call in flight fail.                                      *)
(***************************************************************************)
C24_DefaultChangeLeavesCallsInFlight ==
    [][\A c \in CallIds :
          \* resolution: a call without a name takes the default of that moment
          /\ (/\ calls[c].pc = "idle" /\ calls'[c].op # "none"
              /\ calls'[c].route.api # "none"
              /\ calls'[c].route.gatewayName = None) =>
                /\ calls'[c].route.target = payLens.defaultGateway
                /\ Val(calls'[c].route.target) \in DOMAIN payLens.gateways
          \* in flight: the adapter stays the same and only the call's own
          \* transport can end it
          /\ InFlight(calls[c]) =>
                /\ calls'[c].route = calls[c].route
                /\ calls'[c].op = calls[c].op
                /\ <<payLens, admin>>' # <<payLens, admin>> => calls'[c] = calls[c]
                /\ calls'[c].thrown # None =>
                      /\ Val(calls'[c].thrown).name \in {"PaymentError", "RefundError"}
                      /\ calls'[c].netError # None
                      /\ Val(calls'[c].thrown).cause = calls'[c].netError]_vars

\* setDefaultGateway was called while a payment without a gateway name waits to retry
C24_Witness ==
    /\ admin.op = "setDefaultGateway" /\ admin.arg = Some("payfast")
    /\ calls[1].route.api = "processPayment"
    /\ calls[1].route.gatewayName = None
    /\ calls[1].pc = "sleep"
    /\ calls[1].route.target = Some("peach")

(***************************************************************************)
(* C25: after the successful construction of PayLens, in every reachable   *)
(* state and after any sequence of public operations, successful or        *)
(* failing: the registered names and the adapter bound to each never       *)
(* change, and the default gateway is always defined and a member of the   *)
(* registry, so the error 'No gateway specified and no default gateway     *)
(* set' is unreachable.                                                    *)
(***************************************************************************)
C25_RegistryImmutableDefaultRegistered ==
    [][/\ payLens.state = "ok" =>
            /\ payLens'.state = "ok"
            /\ payLens'.gateways = payLens.gateways
       /\ payLens'.state = "ok" =>
            /\ payLens'.defaultGateway # None
            /\ Val(payLens'.defaultGateway) \in DOMAIN payLens'.gateways
            /\ \A c \in CallIds :
                  (calls'[c].thrown # None
                     /\ Val(calls'[c].thrown).name = "ConfigurationError") =>
                        Val(calls'[c].thrown).message[1]
                            # "No gateway specified and no default gateway set"]_vars

\* a failed setDefaultGateway and a call failed for an unknown gateway left the default
C25_Witness ==
    /\ payLens.state = "ok"
    /\ admin.thrown # None
    /\ calls[1].pc = "done" /\ calls[1].thrown # None
    /\ Val(calls[1].thrown).name = "ConfigurationError"
    /\ payLens.defaultGateway = Some("peach")
    /\ DOMAIN payLens.gateways = {"peach"}

Max(a, b) == IF a > b THEN a ELSE b

(***************************************************************************)
(* C26: every logical call eventually terminates, provided each HTTP       *)
(* attempt eventually returns or fails: it ends in exactly one of success  *)
(* or a thrown error (a non-retryable failure or retry exhaustion), after  *)
(* at most max(1, maxRetries) attempts and at most maxRetries - 1 backoff  *)
(* delays; no call retries forever.                                        *)
(***************************************************************************)
C26_EveryCallTerminates ==
    /\ [](\A c \in CallIds :
            Started(calls[c]) =>
                /\ Len(AttemptsOf(calls[c])) <= Max(1, MaxRetries)
                /\ Len(DelaysOf(calls[c])) <= MaxRetries - 1
                /\ calls[c].pc = "done" =>
                      (calls[c].returned # None) # (calls[c].thrown # None))
    /\ \A c \in CallIds :
          (calls[c].pc \in {"request", "sleep"}) ~> (calls[c].pc = "done")

\* a call ended by exhaustion after three attempts and two delays
C26_Witness ==
    /\ calls[1].pc = "done"
    /\ calls[1].thrown # None
    /\ Len(AttemptsOf(calls[1])) = 3
    /\ Len(DelaysOf(calls[1])) = 2
    /\ MaxRetries = 3

C28_TestModeIffSandbox ==
    \A c \in CallIds :
        LET call == calls[c] IN
        call.op \in {"processPayment", "processRefund"} =>
            \A i \in 1..Len(call.sent) :
                /\ Val(Val(gateway.peachConfig).environment) = "sandbox" =>
                      Val(call.sent[i].body).testMode = Some("EXTERNAL")
                /\ Val(Val(gateway.peachConfig).environment) = "production" =>
                      Val(call.sent[i].body).testMode = None

(***************************************************************************)
(* C29: the reference of the PaymentResponse returned by processPayment    *)
(* equals the merchantTransactionId that was sent to the gateway for that  *)
(* call, both when the caller supplied a reference and when the adapter    *)
(* generated one because the request had none.                             *)
(***************************************************************************)
C29_ResponseReferenceIsSentReference ==
    \A c \in CallIds :
        LET call == calls[c] IN
        (call.op = "processPayment" /\ call.pc = "done" /\ call.returned # None) =>
            Val(call.returned).reference
                = Some(Val(call.sent[Len(call.sent)].body).merchantTransactionId)

====
